---- MODULE Spec2Model ----
(***************************************************************************)
(* A model of the factory engine of kolach/go-factory: field bindings,     *)
(* Derive, the population walk of setFields, Create and the Must variants, *)
(* the round-robin generator Seq/Select and the call depth of recursive    *)
(* population calls.                                                        *)
(***************************************************************************)
EXTENDS Integers, Sequences, FiniteSets, TLC

\* ------------------------------------------------------------------- state

VARIABLES
    factories,  \* the Factory values the callers hold: the built one, then derived ones
    built,      \* what each of them was built from and with (history)
    arrays,     \* the backing arrays of the fieldGens slices, by id
    n,          \* the counter n of each Seq closure
    seqLog,     \* what each Seq closure returned and Select picked, in order (history)
    pc,         \* per caller: "idle", "run" (inside a population call) or "done"
    call,       \* per caller: the top-level call in progress or last made
    stack,      \* per caller: the setFields activations, outermost first
    heap,       \* per caller: the struct instances of the call, by id
    log,        \* per caller: every generator invocation of the call (history)
    res,        \* per caller: how the last top-level call ended
    menu        \* what the callers choose their calls from (fixed by Init)

vars == <<factories, built, arrays, n, seqLog, pc, call, stack, heap, log, res, menu>>

\* ------------------------------------------------------------------ bounds

\* how many Factory values the callers may hold (the built one and derived ones)
MaxFactories == 2
\* how many invocations one round-robin counter serves
MaxSeqCalls == 4
\* the depth above which the recursive generator of the test stops nesting
DepthLimit == 4

\* ------------------------------------------------------------ target type

\* the fields of the target struct, in declaration order; "u" is unexported
StructFields == <<"A", "B", "K", "u">>

FieldNames == {StructFields[i] : i \in 1..Len(StructFields)}

\* reflect.Kind of a field: K is a pointer to the struct itself, the rest are ints
FieldKind(name) == IF name = "K" THEN "ptr" ELSE "int"

\* a type all of whose fields count as exported
ExportedAll(name) == TRUE

\* StructField.PkgPath == "" / Value.CanSet of a field of an addressable struct
Exported(name) == name # "u"

\* Type.FieldByName: the index of the field with that name, 0 when absent
FieldByName(name) ==
    IF name \in FieldNames
    THEN CHOOSE i \in 1..Len(StructFields) : StructFields[i] = name
    ELSE 0

\* Value.FieldByIndex: the field at an index
FieldByIndex(index) == StructFields[index]

\* reflect.New(typ).Elem(): every int 0, every pointer nil (0); a non-zero
\* pointer is the identity of the struct it points to
ZeroInstance == [name \in FieldNames |-> 0]

\* ----------------------------------------------------------------- values

\* interface{} values a generator returns: an int, a pointer to an instance
\* of the struct (x = 0: typed nil pointer), or the nil interface
IntV(i) == [t |-> "int", x |-> i]
PtrV(p) == [t |-> "ptr", x |-> p]
\* a non-nil pointer to an int holding i
PIntV(i) == [t |-> "pint", x |-> i]
NilV == [t |-> "nil", x |-> 0]

\* ------------------------------------------------------------- generators

\* a function value as reflect sees it: the number of its parameters (the
\* variable tail counts as one), whether it is variadic, the number of its
\* results, whether the type of the second implements error, and the error it
\* returns ("" for nil); it returns one more than the sum of its arguments
Callable(numIn, variadic, numOut, errOut, err) ==
    [numIn |-> numIn, variadic |-> variadic, numOut |-> numOut,
     errOut |-> errOut, err |-> err]

\* no function: the generator is not an adapted callable
NoFn == Callable(0, FALSE, 0, FALSE, "")

\* no Factory: the generator does not delegate to one
NoFactory == [typ |-> "", fieldGens |-> 0, callDepth |-> 0]

\* a GeneratorFunc closure
Gen(kind, val, err, opts, id, from, limit) ==
    [kind |-> kind, val |-> val, err |-> err, opts |-> opts, id |-> id,
     from |-> from, limit |-> limit, fn |-> NoFn, fact |-> NoFactory]

\* Func(f, args...): the generator that calls f with args
Func(c, args) == [Gen("Func", NilV, "", args, 0, "", 0) EXCEPT !.fn = c]

\* a Func that does not compare the arguments with the parameters
FuncPanicsNoArity(c, args) ==
    \/ c.numOut = 0 \/ c.numOut > 2
    \/ c.numOut = 2 /\ ~c.errOut

\* the panics of Func: wrong number of arguments for a non-variadic
\* function, no result or more than two, a second result that is no error
FuncPanics(c, args) ==
    \/ ~c.variadic /\ c.numIn # Len(args)
    \/ c.numOut = 0 \/ c.numOut > 2
    \/ c.numOut = 2 /\ ~c.errOut

\* val.Call(in) panics when in has too few or too many values for f
CallPanics(c, args) ==
    IF c.variadic THEN Len(args) < c.numIn - 1 ELSE Len(args) # c.numIn

RECURSIVE SumArgs(_)
SumArgs(args) == IF args = <<>> THEN 0 ELSE Head(args) + SumArgs(Tail(args))

\* r := val.Call(in): what the function returns for the arguments
CallResults(c, args) == [r0 |-> IntV(SumArgs(args) + 1), r1 |-> c.err]

\* the closure Func returns: (r[0], nil) when there is one result or r[1] is
\* nil, (r[0], r[1]) otherwise
FuncResult(c, args) ==
    IF c.numOut = 1 \/ CallResults(c, args).r1 = ""
    THEN [val |-> CallResults(c, args).r0, err |-> ""]
    ELSE [val |-> CallResults(c, args).r0, err |-> CallResults(c, args).r1]

\* Value(i): the constant generator
Value(v) == Gen("Value", v, "", <<>>, 0, "", 0)

\* SeqSelect(options...) = Select(Seq, options...); id names the counter n of
\* the closure Seq returned
SeqSelect(id, opts) == Gen("SeqSelect", NilV, "", opts, id, "", 0)

\* Rnd(max)'s closure returns randomdata.Number(max): any integer of [0, max)
Rnd(max) == 0..(max - 1)

\* RndSelect(options...) = Select(Rnd, options...)
RndSelect(opts) == Gen("RndSelect", NilV, "", opts, 0, "", 0)

\* the generator NewGenerator makes of a *Factory: it calls fact.Create()
FactoryGen(fact) == [Gen("Factory", NilV, "", <<>>, 0, "", 0) EXCEPT !.fact = fact]

\* a NewGenerator that selects among the extra values only
NewGeneratorExtrasOnly(i, args) ==
    IF Len(args) = 0 THEN Value(i) ELSE RndSelect(args)

\* NewGenerator(i, args...): a generator function is taken as it is, a
\* *Factory is wrapped, a function is adapted by Func, a value alone is a
\* constant and a value with extra values a random selection among them all
NewGenerator(i, args) ==
    IF "kind" \in DOMAIN i THEN i
    ELSE IF "fieldGens" \in DOMAIN i THEN FactoryGen(i)
    ELSE IF "numIn" \in DOMAIN i THEN Func(i, args)
    ELSE IF Len(args) = 0 THEN Value(i)
    ELSE RndSelect(<<i>> \o args)

\* Use(i, args...): the generator NewGenerator makes
Use(i, args) == NewGenerator(i, args)

\* a canonical generator that fails: return nil, errors.New(err)
Fail(err) == Gen("Fail", NilV, err, <<>>, 0, "", 0)

\* a canonical generator that reads another field of ctx.Instance
FromField(from) == Gen("FromField", NilV, "", <<>>, 0, from, 0)

\* the self-referential generator: records CallDepth, stops above limit with
\* the value leaf, otherwise populates a child through ctx.Factory
Self(limit, leaf) == Gen("Self", leaf, "", <<>>, 0, "", limit)

\* a self-referential generator that nests one level too many
ExitRecursionLate(depth, limit) == depth > limit + 1

\* the self-referential generator's "if self.CallDepth() > limit": exit
\* recursion
ExitRecursion(depth, limit) == depth > limit

\* the counters of the round-robin generators in use
SeqIds == {1}

\* ----------------------------------------------------------- field binding

\* Use(i).For(fields...) = WithGen(g, fields...): a FieldGenFunc closure
For(g, fields) == [g |-> g, fields |-> fields]

\* a closure that checks only that the field exists
WithGenPanicsAbsentOnly(fgf) ==
    \E i \in 1..Len(fgf.fields) : FieldByName(fgf.fields[i]) = 0

\* WithGen's closure panics on a field that is absent or cannot be set
WithGenPanics(fgf) ==
    \E i \in 1..Len(fgf.fields) :
        \/ FieldByName(fgf.fields[i]) = 0
        \/ ~Exported(fgf.fields[i])

\* a closure that stores the position of the name in its list of fields
WithGenLoopIndex(fgf) ==
    [i \in 1..Len(fgf.fields) |->
        [fieldName |-> fgf.fields[i], fieldIndex |-> i, generator |-> fgf.g]]

\* WithGen's closure applied to a sample: one fieldGen per field, same generator
WithGen(fgf) ==
    [i \in 1..Len(fgf.fields) |->
        [fieldName |-> fgf.fields[i],
         fieldIndex |-> FieldByName(fgf.fields[i]),
         generator |-> fgf.g]]

RECURSIVE Flatten(_)
\* the fieldGens of a list of FieldGenFuncs, in order
Flatten(fgfs) ==
    IF fgfs = <<>> THEN <<>>
    ELSE WithGen(Head(fgfs)) \o Flatten(Tail(fgfs))

\* only the first FieldGenFunc is applied to the sample before the walk
\* Use(f, args...) panics for some binding of the list: NewGenerator hands a
\* function to Func
UsePanics(fgfs) ==
    \E i \in 1..Len(fgfs) :
        fgfs[i].g.kind = "Func" /\ FuncPanics(fgfs[i].g.fn, fgfs[i].g.opts)

AnyPanicsFirstOnly(fgfs) == fgfs # <<>> /\ WithGenPanics(fgfs[1])

\* some FieldGenFunc of the list panics when applied to the sample
AnyPanics(fgfs) == \E i \in 1..Len(fgfs) : WithGenPanics(fgfs[i])

\* ------------------------------------------------------------------ Derive

\* newGensMap[name] = gen
MapPut(m, name, gen) ==
    [key \in (DOMAIN m) \cup {name} |-> IF key = name THEN gen ELSE m[key]]

\* delete(newGensMap, name)
MapDelete(m, name) == [key \in (DOMAIN m) \ {name} |-> m[key]]

RECURSIVE BuildMap(_, _)
\* the first loop of Derive: the lookup map, a later override of a name
\* replacing an earlier one
BuildMap(newGenList, m) ==
    IF newGenList = <<>> THEN m
    ELSE BuildMap(Tail(newGenList),
                  MapPut(m, Head(newGenList).fieldName, Head(newGenList).generator))

RECURSIVE CopyOrOverride(_, _)
\* "1. copy or override original field generators": a binding whose name is
\* in the map takes the map's generator and the name is deleted from the map
CopyOrOverride(old, m) ==
    IF old = <<>> THEN [gens |-> <<>>, map |-> m]
    ELSE LET fg == Head(old)
             hit == fg.fieldName \in DOMAIN m
             fg2 == IF hit THEN [fg EXCEPT !.generator = m[fg.fieldName]] ELSE fg
             rest == CopyOrOverride(Tail(old),
                                    IF hit THEN MapDelete(m, fg.fieldName) ELSE m)
         IN [gens |-> <<fg2>> \o rest.gens, map |-> rest.map]

\* "2. append new field generators": the overrides whose name is still in the map
AppendNew(newGenList, m) ==
    SelectSeq(newGenList, LAMBDA fg : fg.fieldName \in DOMAIN m)

\* the fieldGens Derive builds from the receiver's fieldGens and the overrides
DeriveGens(old, fgfs) ==
    LET newGenList == Flatten(fgfs)
        step1 == CopyOrOverride(old, BuildMap(newGenList, <<>>))
    IN step1.gens \o AppendNew(newGenList, step1.map)

\* a Factory value; callDepth is 0 in every Factory a caller builds or derives
Factory(typ, fieldGens, callDepth) ==
    [typ |-> typ, fieldGens |-> fieldGens, callDepth |-> callDepth]

\* CallDepth(): the depth of this Factory view
CallDepth(f) == f.callDepth

\* a depth counted over all callers' activations instead of the call chain
diveShared(f) ==
    LET RECURSIVE Sum(_)
        Sum(S) == IF S = {} THEN 0
                  ELSE LET o == CHOOSE o \in S : TRUE IN Len(stack[o]) + Sum(S \ {o})
    IN Factory(f.typ, f.fieldGens, Sum(DOMAIN stack))

\* a view that keeps the depth of f
diveSame(f) == Factory(f.typ, f.fieldGens, f.callDepth)

\* the view of f one call deeper, which a population call hands to its
\* generators as ctx.Factory: same type and bindings, depth + 1
dive(f) == Factory(f.typ, f.fieldGens, f.callDepth + 1)

\* the depth of the Factory Derive returns: the receiver's
DerivedDepth(f) == f.callDepth

\* the smallest id no backing array has
FreshArray(arrs) == CHOOSE i \in 1..(Cardinality(DOMAIN arrs) + 1) : i \notin DOMAIN arrs

\* Derive with the result written into the receiver's own array
DeriveInPlace(arrs, f, fgfs) ==
    [arrays |-> [arrs EXCEPT ![f.fieldGens] = DeriveGens(arrs[f.fieldGens], fgfs)],
     factory |-> Factory(f.typ, f.fieldGens, DerivedDepth(f))]

\* Derive on the heap of backing arrays arrs: make() allocates a new array for
\* the result and the receiver's array is only read
Derive(arrs, f, fgfs) ==
    LET id == FreshArray(arrs)
        gens == DeriveGens(arrs[f.fieldGens], fgfs)
    IN [arrays |-> [i \in (DOMAIN arrs) \cup {id} |-> IF i = id THEN gens ELSE arrs[i]],
        factory |-> Factory(f.typ, id, DerivedDepth(f))]

\* --------------------------------------------------------------- NewFactory

\* an isZero that takes every value for non-zero
isZeroNever(name, raw) == FALSE

\* isZero of a field value: a nil pointer, or equal to the zero value
isZero(name, raw) == raw = 0

\* the interface{} holding the raw value of a field
FieldValue(name, raw) == IF FieldKind(name) = "ptr" THEN PtrV(raw) ELSE IntV(raw)

RECURSIVE ProtoGensFrom(_, _)
\* ProtoGens: Use(v).For(name) for each exported field of proto with a
\* non-zero value, in struct field order
ProtoGensFrom(proto, i) ==
    IF i > Len(StructFields) THEN <<>>
    ELSE LET name == StructFields[i]
         IN (IF Exported(name) /\ ~isZero(name, proto[name])
             THEN <<For(Value(FieldValue(name, proto[name])), <<name>>)>>
             ELSE <<>>) \o ProtoGensFrom(proto, i + 1)

ProtoGens(proto) == ProtoGensFrom(proto, 1)

\* a NewFactory that puts the prototype's bindings after the explicit ones
NewFactoryGensExplicitFirst(proto, fgfs) == Flatten(fgfs \o ProtoGens(proto))

\* the fieldGens of NewFactory(proto, fieldGenFuncs...): the prototype's
\* bindings first, then the explicit ones
NewFactoryGens(proto, fgfs) == Flatten(ProtoGens(proto) \o fgfs)

\* NewFactory panics when a binding names a field that cannot be bound
NewFactoryPanics(proto, fgfs) == AnyPanics(ProtoGens(proto) \o fgfs)

\* ----------------------------------------------------------------- callers

Callers == DOMAIN pc

Ops == {"SetFields", "MustSetFields", "Create", "MustCreate"}

NoCall == [op |-> "none", f |-> 0, x |-> <<>>, i0 |-> ZeroInstance, tmp |-> 0]
NoRes == [st |-> "none", err |-> "", ret |-> 0]
\* how a call ended: it returned (an error, a value) or it panicked
Returned(err, ret) == [st |-> "returned", err |-> err, ret |-> ret]
Panicked(err) == [st |-> "panicked", err |-> err, ret |-> 0]

\* one activation of setFields: the receiver f, the instance, the index k of
\* the binding the walk is at, and where the k-th generator stands
Frame(f, inst) ==
    [f |-> f, inst |-> inst, k |-> 1, phase |-> "gen", val |-> NilV, err |-> "",
     entry |-> 0, cnt |-> 0]

\* f.fieldGens of an activation
Gens(fr) == arrays[fr.f.fieldGens]

\* ------------------------------------------------------------------ inputs

\* the (prototype, bindings) pairs a Factory is built from
BaseInputs ==
    { [proto |-> ZeroInstance,
       gens |-> <<For(Value(IntV(1)), <<"A">>), For(FromField("A"), <<"B">>)>>],
      [proto |-> ZeroInstance,
       gens |-> <<For(SeqSelect(1, <<IntV(1), IntV(2)>>), <<"A">>),
                  For(FromField("A"), <<"B">>)>>],
      [proto |-> ZeroInstance,
       gens |-> <<For(Value(IntV(1)), <<"A">>), For(Fail("boom"), <<"B">>),
                  For(Value(IntV(2)), <<"A">>)>>],
      [proto |-> [ZeroInstance EXCEPT !["A"] = 1, !["u"] = 5],
       gens |-> <<For(Value(IntV(2)), <<"A", "B">>)>>],
      [proto |-> ZeroInstance,
       gens |-> <<For(Value(IntV(1)), <<"A">>),
                  For(Self(DepthLimit, PtrV(0)), <<"K">>)>>],
      [proto |-> ZeroInstance,
       gens |-> <<For(Self(DepthLimit, NilV), <<"K">>)>>],
      [proto |-> ZeroInstance,
       gens |-> <<For(SeqSelect(1, <<IntV(4), IntV(5), IntV(6)>>), <<"B">>)>>],
      [proto |-> [ZeroInstance EXCEPT !["B"] = 45, !["K"] = 9, !["u"] = 5],
       gens |-> <<>>],
      [proto |-> ZeroInstance,
       gens |-> <<For(Value(PIntV(6)), <<"A">>), For(Value(IntV(2)), <<"B">>),
                  For(Value(PtrV(9)), <<"K">>)>>],
      [proto |-> ZeroInstance,
       gens |-> <<For(Value(IntV(1)), <<"A">>), For(Value(NilV), <<"K">>)>>],
      [proto |-> ZeroInstance,
       gens |-> <<For(Value(IntV(1)), <<"A">>), For(Value(IntV(2)), <<"Z">>)>>],
      [proto |-> ZeroInstance,
       gens |-> <<For(Value(IntV(1)), <<"A">>), For(Value(IntV(2)), <<"u">>)>>] }

\* the override lists a caller passes to Derive or to a population call
OverrideMenu ==
    { <<>>,
      <<For(Value(IntV(3)), <<"A">>)>>,
      <<For(Value(IntV(3)), <<"B">>)>>,
      <<For(Fail("bang"), <<"A">>)>>,
      <<For(Fail("bang"), <<"B">>)>>,
      <<For(Value(IntV(4)), <<"B">>), For(Value(IntV(3)), <<"A">>)>>,
      <<For(Value(IntV(3)), <<"B">>), For(Value(IntV(4)), <<"B">>)>>,
      <<For(Value(IntV(3)), <<"A">>), For(Value(IntV(1)), <<"u">>)>> }

\* the override lists a caller passes to Derive
DeriveMenu ==
    { <<>>,
      <<For(Value(IntV(3)), <<"A">>)>>,
      <<For(Value(IntV(3)), <<"B">>)>>,
      <<For(Value(IntV(4)), <<"B">>), For(Value(IntV(3)), <<"A">>)>> }

\* the instances a caller hands to SetFields: a zero one, one with fields set
InstanceMenu ==
    { ZeroInstance,
      [ZeroInstance EXCEPT !["A"] = 7, !["B"] = 8, !["K"] = 9, !["u"] = 9] }

\* ------------------------------------------------------------------- Init

\* every operation, override list and instance
FullMenu ==
    [ops |-> Ops, overrides |-> OverrideMenu, derives |-> DeriveMenu,
     instances |-> InstanceMenu]

\* the calls of the concurrent callers: SetFields on a zero instance
ConcMenu ==
    [ops |-> {"SetFields"},
     overrides |-> {<<>>},
     derives |-> {<<>>},
     instances |-> {ZeroInstance}]

\* the Factories the concurrent callers share: the recursive one and the one
\* with the round-robin generator
ConcInputs ==
    { [proto |-> ZeroInstance,
       gens |-> <<For(Self(DepthLimit, PtrV(0)), <<"K">>)>>],
      [proto |-> ZeroInstance,
       gens |-> <<For(SeqSelect(1, <<IntV(1), IntV(2)>>), <<"A">>),
                  For(FromField("A"), <<"B">>)>>] }

\* the call that panics while the Factory is built from b, "" for none: a Use
\* among the arguments, which are evaluated first, or NewFactory itself
Failing(b) ==
    IF UsePanics(b.gens) THEN "Use"
    ELSE IF NewFactoryPanics(b.proto, b.gens) THEN "NewFactory" ELSE ""

\* the state NewFactory(b.proto, b.gens...) leaves: a Factory the callers
\* share, or, when it panicked, no Factory and the panic at the first caller
InitWith(callers, inputs, m) ==
    /\ menu = m
    /\ n = [id \in SeqIds |-> 0]
    /\ seqLog = [id \in SeqIds |-> <<>>]
    /\ stack = [t \in callers |-> <<>>]
    /\ heap = [t \in callers |-> <<>>]
    /\ log = [t \in callers |-> <<>>]
    /\ \E b \in inputs :
          IF Failing(b) # ""
          THEN /\ arrays = <<>>
               /\ built = <<>>
               /\ factories = <<>>
               /\ pc = [t \in callers |-> IF t = 1 THEN "done" ELSE "idle"]
               /\ call = [t \in callers |->
                            IF t = 1
                            THEN [op |-> Failing(b), f |-> 0, x |-> b.gens,
                                  i0 |-> b.proto, tmp |-> 0]
                            ELSE NoCall]
               /\ res = [t \in callers |->
                           IF t = 1 THEN Panicked("config") ELSE NoRes]
          ELSE /\ arrays = [i \in {1} |-> NewFactoryGens(b.proto, b.gens)]
               /\ built = <<[from |-> 0, x |-> b.gens, proto |-> b.proto,
                             gens |-> NewFactoryGens(b.proto, b.gens)]>>
               /\ factories = <<Factory("T", 1, 0)>>
               /\ pc = [t \in callers |-> "idle"]
               /\ call = [t \in callers |-> NoCall]
               /\ res = [t \in callers |-> NoRes]

\* one caller, every kind of Factory and call
Init == InitWith({1}, BaseInputs, FullMenu)

\* two callers sharing one Factory
InitConc == InitWith({1, 2}, ConcInputs, ConcMenu)

\* the functions handed to Use: up to two parameters, up to three results
Callables ==
    { Callable(numIn, variadic, numOut, errOut, err) :
        numIn \in 0..2, variadic \in BOOLEAN, numOut \in 0..3,
        errOut \in BOOLEAN, err \in {"", "boom"} }

\* a function type: a variadic one has its tail parameter, only a second
\* result has an error type, only an error result holds an error
WellFormed(c) ==
    /\ c.variadic => c.numIn >= 1
    /\ c.errOut => c.numOut >= 2
    /\ c.err # "" => c.numOut >= 2 /\ c.errOut

\* the extra arguments handed to Use
ArgLists == {<<>>, <<1>>, <<1, 2>>}

\* Factories with a binding of A to Use(f, args...), then a round-robin one
FuncInputs ==
    { [proto |-> ZeroInstance,
       gens |-> <<For(Func(c, args), <<"A">>),
                  For(SeqSelect(1, <<IntV(1), IntV(2)>>), <<"B">>)>>] :
        c \in {o \in Callables : WellFormed(o)}, args \in ArgLists }

\* the value and the extra values of an option set
RndValue == IntV(5)
RndExtras == <<IntV(6), IntV(7)>>

\* Factories with a binding to Use(value, extras...), and to Use(value)
RndInputs ==
    { [proto |-> ZeroInstance,
       gens |-> <<For(Use(RndValue, RndExtras), <<"A", "B", "A">>)>>],
      [proto |-> ZeroInstance,
       gens |-> <<For(Use(RndValue, <<>>), <<"A">>)>>] }

\* the calls made on them
FuncMenu ==
    [ops |-> {"SetFields", "Create"},
     overrides |-> {<<>>},
     derives |-> {<<>>},
     instances |-> {ZeroInstance}]

\* the nested Factory, built first, as the outer Factory's bindings name it
addrFact == [typ |-> "T", fieldGens |-> 1, callDepth |-> 0]

\* a nested Factory and the bindings of the Factory built around it: K
\* bound twice to the nested Factory; K bound to a nested Factory whose
\* second generator fails
NestedInputs ==
    { [nested |-> <<For(Value(IntV(1)), <<"A">>), For(FromField("A"), <<"B">>)>>,
       gens |-> <<For(Use(addrFact, <<>>), <<"K", "K">>),
                  For(Value(IntV(2)), <<"A">>)>>],
      [nested |-> <<For(Value(IntV(1)), <<"A">>), For(Fail("boom"), <<"B">>)>>,
       gens |-> <<For(Value(IntV(2)), <<"A">>), For(Use(addrFact, <<>>), <<"K">>),
                  For(Value(IntV(3)), <<"B">>)>>] }

\* the state addrFact := NewFactory(T{}, b.nested...) and then
\* NewFactory(T{}, b.gens...) leave: the callers hold both Factories
InitNested(callers, inputs, m) ==
    /\ menu = m
    /\ n = [id \in SeqIds |-> 0]
    /\ seqLog = [id \in SeqIds |-> <<>>]
    /\ stack = [t \in callers |-> <<>>]
    /\ heap = [t \in callers |-> <<>>]
    /\ log = [t \in callers |-> <<>>]
    /\ pc = [t \in callers |-> "idle"]
    /\ call = [t \in callers |-> NoCall]
    /\ res = [t \in callers |-> NoRes]
    /\ \E b \in inputs :
          /\ arrays = <<NewFactoryGens(ZeroInstance, b.nested),
                        NewFactoryGens(ZeroInstance, b.gens)>>
          /\ built = <<[from |-> 0, x |-> b.nested, proto |-> ZeroInstance,
                        gens |-> NewFactoryGens(ZeroInstance, b.nested)],
                       [from |-> 0, x |-> b.gens, proto |-> ZeroInstance,
                        gens |-> NewFactoryGens(ZeroInstance, b.gens)]>>
          /\ factories = <<addrFact, Factory("T", 2, 0)>>

\* one caller, a Factory with a generator NewGenerator adapted
InitFunc ==
    \/ InitWith({1}, FuncInputs \cup RndInputs, FuncMenu)
    \/ InitNested({1}, NestedInputs, FuncMenu)

\* the Factory two callers use with overrides: one of constant bindings
SharedInputs ==
    { [proto |-> ZeroInstance,
       gens |-> <<For(Value(IntV(1)), <<"A">>), For(FromField("A"), <<"B">>)>>] }

\* their calls: with and without an override of A
SharedMenu ==
    [ops |-> Ops,
     overrides |-> {<<>>, <<For(Value(IntV(3)), <<"A">>)>>},
     derives |-> {<<>>, <<For(Value(IntV(3)), <<"A">>)>>},
     instances |-> {ZeroInstance}]

\* two callers sharing one Factory: with overrides on the Factory of constant
\* bindings, without on the recursive and the round-robin one
InitShared ==
    \/ InitWith({1, 2}, SharedInputs, SharedMenu)
    \/ InitWith({1, 2}, ConcInputs, ConcMenu)

\* the recursive Factories, and one with a round-robin binding
LiveInputs ==
    { [proto |-> ZeroInstance,
       gens |-> <<For(Value(IntV(1)), <<"A">>),
                  For(Self(DepthLimit, PtrV(0)), <<"K">>)>>],
      [proto |-> ZeroInstance,
       gens |-> <<For(Self(DepthLimit, NilV), <<"K">>)>>],
      [proto |-> ZeroInstance,
       gens |-> <<For(Self(DepthLimit, PtrV(0)), <<"K">>),
                  For(Fail("boom"), <<"B">>)>>],
      [proto |-> ZeroInstance,
       gens |-> <<For(SeqSelect(1, <<IntV(1), IntV(2)>>), <<"A">>)>>] }

\* the calls made on them
LiveMenu ==
    [ops |-> {"SetFields", "Create"},
     overrides |-> {<<>>, <<For(Value(IntV(3)), <<"B">>)>>},
     derives |-> {<<>>, <<For(Value(IntV(3)), <<"B">>)>>},
     instances |-> {ZeroInstance}]

\* one caller and a recursive Factory
InitLive == InitWith({1}, LiveInputs, LiveMenu)

\* ------------------------------------------------------------------ Derive

\* a caller calls factories[fi].Derive(x...) and keeps the result
DeriveCall(t, fi, x) ==
    /\ pc[t] = "idle"
    /\ Len(factories) < MaxFactories
    /\ ~AnyPanics(x)
    /\ LET d == Derive(arrays, factories[fi], x)
       IN /\ arrays' = d.arrays
          /\ factories' = Append(factories, d.factory)
          /\ built' = Append(built, [from |-> fi, x |-> x, proto |-> ZeroInstance,
                                      gens |-> d.arrays[d.factory.fieldGens]])
    /\ UNCHANGED <<n, seqLog, pc, call, stack, heap, log, res, menu>>

\* setFields dropping its overrides
ReceiverIgnoresOverrides(arrs, f, fgfs) == [arrays |-> arrs, factory |-> f]

\* setFields storing the Factory it derived for the call into the receiver
ReceiverInPlace(arrs, f, fgfs) ==
    IF Len(fgfs) > 0
    THEN LET d == Derive(arrs, f, fgfs)
         IN [arrays |-> [d.arrays EXCEPT ![f.fieldGens] = d.arrays[d.factory.fieldGens]],
             factory |-> d.factory]
    ELSE [arrays |-> arrs, factory |-> f]

\* lines 84-86 of setFields: with overrides the walk is that of
\* f.Derive(overrides...), without them that of f itself
Receiver(arrs, f, fgfs) ==
    IF Len(fgfs) > 0 THEN Derive(arrs, f, fgfs) ELSE [arrays |-> arrs, factory |-> f]

\* ------------------------------------------------------- population: values

\* valueof.Kind() == reflect.Ptr
IsPtr(v) == v.t \in {"ptr", "pint"}

\* Value.Elem() of a pointer: the int or the struct it points to, the zero
\* Value for a nil pointer
Elem(v) ==
    IF v.t = "pint" THEN IntV(v.x)
    ELSE IF v.x = 0 THEN NilV ELSE [t |-> "struct", x |-> v.x]

\* a setFields that never dereferences
DerefNever(name, v) == v

\* "deref pointer if field is not a pointer kind"
Deref(name, v) == IF FieldKind(name) # "ptr" /\ IsPtr(v) THEN Elem(v) ELSE v

\* field.Set(valueof) panics on the zero Value (reflect.ValueOf(nil)) and on a
\* value whose type is not the field's
SetPanics(name, v) == Deref(name, v).t # FieldKind(name)

\* an assignment that replaces the whole struct by one with only the field set
SetFieldFresh(inst, name, v) == [ZeroInstance EXCEPT ![name] = Deref(name, v).x]

\* the instance after field.Set(valueof)
SetField(inst, name, v) == [inst EXCEPT ![name] = Deref(name, v).x]

\* ----------------------------------------------------- population: results

\* SetFields returns what setFields returns
SetFields(err) == Returned(err, 0)

\* MustSetFields: panic(err) when SetFields returns an error
MustSetFields(err) ==
    IF SetFields(err).err # "" THEN Panicked(err) ELSE SetFields(err)

\* Create handing out the instance also when setFields failed
CreateLeaksInstance(err, inst) == Returned(err, inst)

\* Create: nil and the error, or the instance and nil
Create(err, inst) == IF err # "" THEN Returned(err, 0) ELSE Returned("", inst)

\* MustCreate without the panic
MustCreateNoPanic(err, inst) == Create(err, inst)

\* MustCreate: panic(err) when Create returns an error
MustCreate(err, inst) ==
    IF Create(err, inst).err # "" THEN Panicked(err) ELSE Create(err, inst)

\* how the top-level call op ends when its setFields returns err
Outcome(op, err, inst) ==
    CASE op = "SetFields" -> SetFields(err)
      [] op = "MustSetFields" -> MustSetFields(err)
      [] op = "Create" -> Create(err, inst)
      [] OTHER -> MustCreate(err, inst)

\* ------------------------------------------------- population: walk helpers

Top(stk) == stk[Len(stk)]
SetTop(stk, fr) == [stk EXCEPT ![Len(stk)] = fr]
Pop(stk) == SubSeq(stk, 1, Len(stk) - 1)

\* the arrays without the one a per-call Derive allocated (garbage once the
\* call is over)
Release(arrs, tmp) == [i \in (DOMAIN arrs) \ {tmp} |-> arrs[i]]

\* the log with the result of the generator invocation fr.entry filled in
Logged(lg, fr, fg, val, err) ==
    [lg EXCEPT ![fr.entry].out = IF err # "" THEN NilV ELSE val,
               ![fr.entry].err = err,
               ![fr.entry].st = IF err # "" THEN "err"
                                ELSE IF SetPanics(FieldByIndex(fg.fieldIndex), val)
                                THEN "panic" ELSE "ok"]

\* "if err != nil { return err }": the activation ends with the error
Aborted(stk, hp, lg, err) ==
    [stack |-> SetTop(stk, [Top(stk) EXCEPT !.phase = "failed", !.err = err]),
     heap |-> hp, log |-> lg, panic |-> FALSE]

\* a panic inside the generator ends the whole call chain
Crashed(stk, hp, lg) ==
    [stack |-> <<>>, heap |-> hp,
     log |-> [lg EXCEPT ![Top(stk).entry].st = "panic"], panic |-> TRUE]

\* field.Set(valueof) and on to the next binding; a panic of field.Set ends
\* the whole call chain
Assigned(stk, hp, lg, val) ==
    LET fr == Top(stk)
        fg == Gens(fr)[fr.k]
    IN IF SetPanics(FieldByIndex(fg.fieldIndex), val)
       THEN [stack |-> <<>>, heap |-> hp, log |-> lg, panic |-> TRUE]
       ELSE [stack |-> SetTop(stk, [fr EXCEPT !.k = fr.k + 1, !.phase = "gen"]),
             heap |-> [hp EXCEPT ![fr.inst] =
                          SetField(hp[fr.inst], FieldByIndex(fg.fieldIndex), val)],
             log |-> lg, panic |-> FALSE]

\* a walk that skips the binding whose generator failed and goes on
DeliverNoAbort(stk, hp, lg, val, err) ==
    LET fr == Top(stk)
        lg2 == Logged(lg, fr, Gens(fr)[fr.k], val, err)
    IN IF err # ""
       THEN [stack |-> SetTop(stk, [fr EXCEPT !.k = fr.k + 1, !.phase = "gen"]),
             heap |-> hp, log |-> lg2, panic |-> FALSE]
       ELSE Assigned(stk, hp, lg2, val)

\* the generator of the top activation's k-th binding returned (val, err):
\* "if err != nil return err", otherwise the value is assigned to the field
\* and the walk moves on
Deliver(stk, hp, lg, val, err) ==
    LET fr == Top(stk)
        lg2 == Logged(lg, fr, Gens(fr)[fr.k], val, err)
    IN IF err # "" THEN Aborted(stk, hp, lg2, err) ELSE Assigned(stk, hp, lg2, val)

\* the caller's variables after a step that left it as r says
Settle(t, r) ==
    /\ stack' = [stack EXCEPT ![t] = r.stack]
    /\ heap' = [heap EXCEPT ![t] = r.heap]
    /\ log' = [log EXCEPT ![t] = r.log]
    /\ IF r.panic
       THEN /\ pc' = [pc EXCEPT ![t] = "done"]
            /\ res' = [res EXCEPT ![t] = Panicked("runtime")]
            /\ arrays' = Release(arrays, call[t].tmp)
       ELSE UNCHANGED <<pc, res, arrays>>

\* -------------------------------------------------------------- population

\* a caller starts op on factories[fi] with the overrides x and, for the
\* SetFields variants, the instance i0 (Create allocates a zero one with
\* f.new()); setFields with overrides walks f.Derive(x...) instead of f
CallPopulate(t, op, fi, x, i0) ==
    /\ pc[t] = "idle"
    /\ op \in {"Create", "MustCreate"} => i0 = ZeroInstance
    /\ call' = [call EXCEPT ![t] =
                  [op |-> op, f |-> fi, x |-> x, i0 |-> i0,
                   tmp |-> IF Len(x) > 0 /\ ~AnyPanics(x) THEN FreshArray(arrays) ELSE 0]]
    /\ heap' = [heap EXCEPT ![t] = <<i0>>]
    /\ log' = [log EXCEPT ![t] = <<>>]
    /\ IF Len(x) > 0 /\ AnyPanics(x)
       THEN /\ pc' = [pc EXCEPT ![t] = "done"]
            /\ res' = [res EXCEPT ![t] = Panicked("config")]
            /\ stack' = [stack EXCEPT ![t] = <<>>]
            /\ UNCHANGED arrays
       ELSE /\ pc' = [pc EXCEPT ![t] = "run"]
            /\ res' = [res EXCEPT ![t] = NoRes]
            /\ LET d == Receiver(arrays, factories[fi], x)
               IN /\ arrays' = d.arrays
                  /\ stack' = [stack EXCEPT ![t] = <<Frame(d.factory, 1)>>]
    /\ UNCHANGED <<factories, built, n, seqLog, menu>>

\* Seq incrementing before it takes the remainder
SeqResultPreIncrement(cnt, max) == (cnt + 1) % max

\* Seq's closure evaluates "n % max" for its result
SeqResult(cnt, max) == cnt % max

\* Seq's deferred func: n++
SeqDeferred(cnt) == cnt + 1

\* what the log records of a generator invocation: the ctx it was given
\* (Field, the Instance and what it showed, the depth of ctx.Factory)
Entry(stk, hp, fg, ctx) ==
    [lvl |-> Len(stk), k |-> Top(stk).k, field |-> ctx.Field, inst |-> ctx.Instance,
     seen |-> hp[ctx.Instance], depth |-> CallDepth(ctx.Factory),
     st |-> "pending", out |-> NilV, err |-> ""]

\* a ctx whose Field is bound once, before the loop
CtxFieldStale(fr, fg) ==
    [Field |-> Gens(fr)[1].fieldName, Instance |-> fr.inst, Factory |-> dive(fr.f)]

\* setFields' ctx for the k-th binding of activation fr
Ctx(fr, fg) == [Field |-> fg.fieldName, Instance |-> fr.inst, Factory |-> dive(fr.f)]

\* one iteration of the walk of setFields: the k-th generator is invoked with
\* ctx and, when it returns at once, its result is delivered
setFieldsStep(t) ==
    /\ pc[t] = "run"
    /\ stack[t] # <<>>
    /\ LET fr == Top(stack[t])
       IN /\ fr.phase = "gen"
          /\ fr.k <= Len(Gens(fr))
          /\ LET fg == Gens(fr)[fr.k]
                 g == fg.generator
                 ctx == Ctx(fr, fg)
                 lg == Append(log[t], Entry(stack[t], heap[t], fg, ctx))
                 stk == SetTop(stack[t], [fr EXCEPT !.entry = Len(lg)])
             IN CASE g.kind = "Value" ->
                       /\ Settle(t, Deliver(stk, heap[t], lg, g.val, ""))
                       /\ UNCHANGED <<n, seqLog>>
                  [] g.kind = "Fail" ->
                       /\ Settle(t, Deliver(stk, heap[t], lg, NilV, g.err))
                       /\ UNCHANGED <<n, seqLog>>
                  [] g.kind = "FromField" ->
                       /\ Settle(t, Deliver(stk, heap[t], lg,
                                  FieldValue(g.from, heap[t][ctx.Instance][g.from]), ""))
                       /\ UNCHANGED <<n, seqLog>>
                  [] g.kind = "SeqSelect" ->
                       /\ Len(seqLog[g.id]) < MaxSeqCalls
                       /\ LET r == SeqResult(n[g.id], Len(g.opts))
                          IN /\ seqLog' = [seqLog EXCEPT ![g.id] = Append(@, [i |-> r, v |-> g.opts[r + 1]])]
                             /\ stack' = [stack EXCEPT ![t] =
                                  SetTop(stk, [Top(stk) EXCEPT !.phase = "defer",
                                                               !.val = g.opts[r + 1]])]
                       /\ log' = [log EXCEPT ![t] = lg]
                       /\ UNCHANGED <<n, heap, pc, res, arrays>>
                  [] g.kind = "RndSelect" ->
                       /\ \E r \in Rnd(Len(g.opts)) :
                             Settle(t, Deliver(stk, heap[t], lg, g.opts[r + 1], ""))
                       /\ UNCHANGED <<n, seqLog>>
                  [] g.kind = "Factory" ->
                       \* fact.Create(): f.new(), then setFields on it
                       /\ heap' = [heap EXCEPT ![t] = Append(@, ZeroInstance)]
                       /\ stack' = [stack EXCEPT ![t] =
                            Append(SetTop(stk, [Top(stk) EXCEPT !.phase = "wait"]),
                                   Frame(g.fact, Len(heap[t]) + 1))]
                       /\ log' = [log EXCEPT ![t] = lg]
                       /\ UNCHANGED <<pc, res, arrays, n, seqLog>>
                  [] g.kind = "Func" ->
                       /\ IF CallPanics(g.fn, g.opts)
                          THEN Settle(t, Crashed(stk, heap[t], lg))
                          ELSE Settle(t, Deliver(stk, heap[t], lg,
                                                 FuncResult(g.fn, g.opts).val,
                                                 FuncResult(g.fn, g.opts).err))
                       /\ UNCHANGED <<n, seqLog>>
                  [] OTHER ->
                       \* Self
                       /\ IF ExitRecursion(CallDepth(ctx.Factory), g.limit)
                          THEN Settle(t, Deliver(stk, heap[t], lg, g.val, ""))
                          ELSE /\ heap' = [heap EXCEPT ![t] = Append(@, ZeroInstance)]
                               /\ stack' = [stack EXCEPT ![t] =
                                    Append(SetTop(stk, [Top(stk) EXCEPT !.phase = "wait"]),
                                           Frame(ctx.Factory, Len(heap[t]) + 1))]
                               /\ log' = [log EXCEPT ![t] = lg]
                               /\ UNCHANGED <<pc, res, arrays>>
                       /\ UNCHANGED <<n, seqLog>>
    /\ UNCHANGED <<factories, built, call, menu>>

\* the deferred func of Seq's closure starts n++ by loading n; nothing orders
\* this load and the store after it with those of another caller
SeqDefer(t) ==
    /\ pc[t] = "run"
    /\ stack[t] # <<>>
    /\ LET fr == Top(stack[t])
           g == Gens(fr)[fr.k].generator
       IN /\ fr.phase = "defer"
          /\ stack' = [stack EXCEPT ![t] =
                SetTop(stack[t], [fr EXCEPT !.phase = "store", !.cnt = n[g.id]])]
    /\ UNCHANGED <<factories, built, arrays, n, seqLog, pc, call, heap, log, res, menu>>

\* n++ stores the loaded value plus one, Select returns options[g()], and
\* the value is delivered
SeqStore(t) ==
    /\ pc[t] = "run"
    /\ stack[t] # <<>>
    /\ LET fr == Top(stack[t])
           g == Gens(fr)[fr.k].generator
       IN /\ fr.phase = "store"
          /\ n' = [n EXCEPT ![g.id] = SeqDeferred(fr.cnt)]
          /\ Settle(t, Deliver(stack[t], heap[t], log[t], fr.val, ""))
    /\ UNCHANGED <<factories, built, seqLog, call, menu>>

\* the generator the activation below the top one is waiting in
Waiting(stk) == Gens(Top(Pop(stk)))[Top(Pop(stk)).k].generator

\* a generator of a nested Factory that drops the error of Create
FactoryResultDropsError(err, inst) == Returned("", Create(err, inst).ret)

\* what the generator of a nested Factory returns: return fact.Create()
FactoryResult(err, inst) == Create(err, inst)

\* what the generator that started a nested walk returns when the walk
\* ends with err: the nested Factory's the result of Create, the
\* self-referential one the child it populated, or the error
Nested(kind, err, inst) ==
    IF kind = "Factory" THEN FactoryResult(err, inst) ELSE Returned(err, inst)

\* an activation of setFields returns: nil after the last binding, or the
\* error of the generator that failed. A nested one returns into the Self
\* generator that called it (which returns the child, or the error); the
\* outermost one ends the caller's operation
setFieldsReturn(t) ==
    /\ pc[t] = "run"
    /\ stack[t] # <<>>
    /\ LET fr == Top(stack[t])
       IN /\ \/ fr.phase = "failed"
             \/ fr.phase = "gen" /\ fr.k > Len(Gens(fr))
          /\ IF Len(stack[t]) > 1
             THEN LET r == Nested(Waiting(stack[t]).kind, fr.err, fr.inst)
                  IN Settle(t, Deliver(Pop(stack[t]), heap[t], log[t],
                                       IF r.ret = 0 THEN NilV ELSE PtrV(r.ret), r.err))
             ELSE /\ stack' = [stack EXCEPT ![t] = <<>>]
                  /\ pc' = [pc EXCEPT ![t] = "done"]
                  /\ res' = [res EXCEPT ![t] = Outcome(call[t].op, fr.err, fr.inst)]
                  /\ arrays' = Release(arrays, call[t].tmp)
                  /\ UNCHANGED <<heap, log>>
    /\ UNCHANGED <<factories, built, n, seqLog, call, menu>>

\* the caller is done with the result of its call and the instances it made
Discard(t) ==
    /\ pc[t] = "done"
    /\ pc' = [pc EXCEPT ![t] = "idle"]
    /\ call' = [call EXCEPT ![t] = NoCall]
    /\ heap' = [heap EXCEPT ![t] = <<>>]
    /\ log' = [log EXCEPT ![t] = <<>>]
    /\ res' = [res EXCEPT ![t] = NoRes]
    /\ UNCHANGED <<factories, built, arrays, n, seqLog, stack, menu>>

\* ------------------------------------------------------------- next, spec

Next ==
    \/ \E t \in Callers, fi \in 1..Len(factories), x \in menu.derives :
          DeriveCall(t, fi, x)
    \/ \E t \in Callers, op \in menu.ops, fi \in 1..Len(factories),
          x \in menu.overrides, i0 \in menu.instances :
          CallPopulate(t, op, fi, x, i0)
    \/ \E t \in Callers : setFieldsStep(t)
    \/ \E t \in Callers : SeqDefer(t)
    \/ \E t \in Callers : SeqStore(t)
    \/ \E t \in Callers : setFieldsReturn(t)
    \/ \E t \in Callers : Discard(t)

Spec == Init /\ [][Next]_vars

SpecConc == InitConc /\ [][Next]_vars

SpecFunc == InitFunc /\ [][Next]_vars

SpecShared == InitShared /\ [][Next]_vars

\* the steps of a population call: they run on the caller's own thread of
\* control, which keeps running until the call returns or panics
Walk ==
    \E t \in Callers :
        setFieldsStep(t) \/ SeqDefer(t) \/ SeqStore(t) \/ setFieldsReturn(t)

SpecLive == InitLive /\ [][Next]_vars /\ WF_vars(Walk)

\* ===================================================================
\* Properties
\* ===================================================================

\* the generator invocations of the walk over instance inst, in order
WalkEntries(t, inst) == SelectSeq(log[t], LAMBDA e : e.inst = inst)

\* the instance a walk started from: the caller's for the outermost walk, a
\* zero child for a nested one
InitialOf(t, inst) == IF inst = 1 THEN call[t].i0 ELSE ZeroInstance

RECURSIVE Apply(_, _)
\* inst after the assignments of the invocations es that returned a value
Apply(inst, es) ==
    IF es = <<>> THEN inst
    ELSE Apply(IF Head(es).st = "ok"
               THEN SetField(inst, Head(es).field, Head(es).out) ELSE inst,
               Tail(es))

\* the fieldGens the outermost walk of caller t's call goes over
WalkedGens(t) ==
    IF call[t].x = <<>> THEN built[call[t].f].gens
    ELSE DeriveGens(built[call[t].f].gens, call[t].x)

\* the error the outermost setFields of caller t's call returned ("" for nil)
WalkErr(t) ==
    LET es == WalkEntries(t, 1)
    IN IF es # <<>> /\ es[Len(es)].st = "err" THEN es[Len(es)].err ELSE ""

\* the call of caller t ended by a panic of the engine itself, not by an error
EnginePanic(t) == res[t].st = "panicked" /\ res[t].err \in {"runtime", "config"}

Names(gens) == {gens[i].fieldName : i \in 1..Len(gens)}

\* ------------------------------------------------------------------- C1

\* C1: in every walk of setFields the generators are invoked once each in the
\* order of the binding list: the j-th invocation is that of the j-th binding,
\* with ctx.Field the j-th binding's field name and ctx.Instance showing
\* exactly the assignments of the invocations before it.
C1_WalkInOrder ==
    \A t \in Callers : \A d \in 1..Len(stack[t]) :
        LET fr == stack[t][d]
            es == WalkEntries(t, fr.inst)
        IN /\ Len(es) = (IF fr.phase = "gen" THEN fr.k - 1 ELSE fr.k)
           /\ \A j \in 1..Len(es) :
                 /\ es[j].k = j
                 /\ es[j].lvl = d
                 /\ es[j].field = Gens(fr)[j].fieldName
                 /\ es[j].seen = Apply(InitialOf(t, fr.inst), SubSeq(es, 1, j - 1))

\* a walk over three bindings is complete, and the second generator saw the
\* value the first one had assigned
C1_Witness ==
    \E t \in Callers :
        /\ pc[t] = "run" /\ Len(stack[t]) = 1
        /\ stack[t][1].phase = "gen" /\ stack[t][1].k = 4
        /\ Len(log[t]) = 3
        /\ log[t][1].st = "ok" /\ log[t][2].st = "ok"
        /\ log[t][2].field # log[t][1].field
        /\ log[t][2].seen[log[t][1].field] = log[t][1].out.x
        /\ log[t][2].seen[log[t][1].field] # call[t].i0[log[t][1].field]

\* ------------------------------------------------------------------- C2

\* what C2 says of Derive: new is old with the generator of every binding
\* whose field the overrides name replaced by an override's generator for
\* that field, followed by the overrides naming a field absent from old
ClaimedDerive(old, x, new) ==
    LET ovr == Flatten(x)
    IN /\ Len(new) >= Len(old)
       /\ \A i \in 1..Len(old) :
             /\ new[i].fieldName = old[i].fieldName
             /\ IF old[i].fieldName \in Names(ovr)
                THEN \E j \in 1..Len(ovr) :
                        /\ ovr[j].fieldName = old[i].fieldName
                        /\ new[i].generator = ovr[j].generator
                ELSE new[i].generator = old[i].generator
       /\ SubSeq(new, Len(old) + 1, Len(new))
             = SelectSeq(ovr, LAMBDA fg : fg.fieldName \notin Names(old))

\* C2: every Factory Derive returned, for a caller or for a population call
\* with overrides, has the binding sequence C2 describes.
C2_DeriveReplacesEvery ==
    /\ \A i \in 1..Len(built) :
          built[i].from # 0 =>
              ClaimedDerive(built[built[i].from].gens, built[i].x, built[i].gens)
    /\ \A t \in Callers :
          pc[t] = "run" /\ call[t].x # <<>> =>
              ClaimedDerive(built[call[t].f].gens, call[t].x, Gens(stack[t][1]))

\* ------------------------------------------------------------------- C3

\* C3: no step changes a Factory a caller holds or the bindings in its
\* backing array, and the Factory a Derive returns has a backing array that
\* did not exist before.
C3_DeriveLeavesReceiver ==
    [][ /\ \A i \in 1..Len(factories) :
              /\ factories'[i] = factories[i]
              /\ arrays'[factories[i].fieldGens] = arrays[factories[i].fieldGens]
        /\ \A i \in (Len(factories) + 1)..Len(factories') :
              factories'[i].fieldGens \notin DOMAIN arrays
        /\ \A t \in Callers :
              pc[t] = "idle" /\ pc'[t] = "run" /\ call'[t].x # <<>> =>
                  stack'[t][1].f.fieldGens \notin DOMAIN arrays ]_vars

\* a derived Factory exists whose bindings differ from its parent's
C3_Witness ==
    /\ Len(factories) = 2
    /\ built[2].from = 1
    /\ factories[2].fieldGens # factories[1].fieldGens
    /\ arrays[factories[2].fieldGens] # arrays[factories[1].fieldGens]
    /\ arrays[factories[1].fieldGens] = built[1].gens

\* ------------------------------------------------------------------- C4

\* C4: a population call with overrides walks Derive(overrides) of the
\* receiver, a call without walks the receiver's own bindings, and at every
\* moment every Factory a caller holds has the bindings it was built with.
C4_OverridesScoped ==
    /\ \A i \in 1..Len(factories) : arrays[factories[i].fieldGens] = built[i].gens
    /\ \A t \in Callers :
          pc[t] = "run" => Gens(stack[t][1]) = WalkedGens(t)

\* a call with an override for A has returned with A set by the override,
\* and the receiver still binds A to its own generator
C4_Witness ==
    \E t \in Callers :
        /\ pc[t] = "done" /\ res[t].st = "returned" /\ res[t].err = ""
        /\ call[t].x = <<For(Value(IntV(3)), <<"A">>)>>
        /\ heap[t][1]["A"] = 3
        /\ \E i \in 1..Len(built[call[t].f].gens) :
              /\ built[call[t].f].gens[i].fieldName = "A"
              /\ built[call[t].f].gens[i].generator # Value(IntV(3))
        /\ arrays[factories[call[t].f].fieldGens] = built[call[t].f].gens

\* ------------------------------------------------------------------- C5

\* C5: in every walk an invocation that returned an error is the last one of
\* the walk, the instance holds exactly the assignments of the invocations
\* that returned a value (the failed binding's field is not assigned, the
\* earlier ones are kept), the activation ends with that same error, and so
\* does the SetFields call.
C5_ErrorAbortsWalk ==
    \A t \in Callers :
        /\ \A inst \in 1..Len(heap[t]) :
              LET es == WalkEntries(t, inst)
              IN /\ \A j \in 1..Len(es) : es[j].st = "err" => j = Len(es)
                 /\ heap[t][inst] = Apply(InitialOf(t, inst), es)
                 /\ es # <<>> /\ es[Len(es)].st = "err" =>
                       /\ heap[t][inst][es[Len(es)].field]
                             = Apply(InitialOf(t, inst),
                                     SubSeq(es, 1, Len(es) - 1))[es[Len(es)].field]
                       /\ es[Len(es)].err # ""
        /\ \A d \in 1..Len(stack[t]) :
              LET es == WalkEntries(t, stack[t][d].inst)
              IN stack[t][d].phase = "failed" <=>
                     /\ es # <<>>
                     /\ es[Len(es)].st = "err"
                     /\ es[Len(es)].err = stack[t][d].err
        /\ pc[t] = "done" /\ call[t].op = "SetFields" /\ ~EnginePanic(t) =>
              res[t] = Returned(WalkErr(t), 0)

\* SetFields on an instance with A = 7, B = 8 over [A, B failing, A] has
\* returned the error of B's generator: A was assigned 1, B still is 8, and
\* the third generator never ran
C5_Witness ==
    \E t \in Callers :
        /\ pc[t] = "done" /\ call[t].op = "SetFields"
        /\ res[t] = Returned("boom", 0)
        /\ call[t].i0["A"] = 7 /\ call[t].i0["B"] = 8
        /\ Len(WalkedGens(t)) = 3
        /\ Len(log[t]) = 2
        /\ heap[t][1]["A"] = 1 /\ heap[t][1]["B"] = 8

\* ------------------------------------------------------------------- C6

\* C6: Create populates a zero instance it allocated; when no generator
\* failed it returns that instance, holding the assignments of all the
\* bindings, and a nil error; when one failed it returns nil and that error.
C6_CreateResult ==
    \A t \in Callers :
        call[t].op = "Create" =>
            /\ call[t].i0 = ZeroInstance
            /\ log[t] # <<>> => log[t][1].seen = ZeroInstance
            /\ pc[t] = "done" /\ ~EnginePanic(t) =>
                  LET es == WalkEntries(t, 1)
                  IN IF WalkErr(t) = ""
                     THEN /\ res[t] = Returned("", 1)
                          /\ Len(es) = Len(WalkedGens(t))
                          /\ \A j \in 1..Len(es) : es[j].st = "ok"
                          /\ heap[t][1] = Apply(ZeroInstance, es)
                     ELSE res[t] = Returned(WalkErr(t), 0)

\* a Create has returned an instance whose A a generator set
C6_Witness ==
    \E t \in Callers :
        /\ pc[t] = "done" /\ call[t].op = "Create"
        /\ res[t].st = "returned" /\ res[t].err = "" /\ res[t].ret = 1
        /\ Len(log[t]) >= 2
        /\ heap[t][res[t].ret]["A"] # 0

\* ------------------------------------------------------------------- C7

\* C7: leaving aside the panics of the engine itself, MustSetFields and
\* MustCreate panic exactly when the walk returned an error, with that error;
\* otherwise they return as SetFields and Create do (MustCreate the
\* instance), and SetFields and Create never panic but return the error.
C7_MustPanicsIffError ==
    \A t \in Callers :
        pc[t] = "done" /\ ~EnginePanic(t) =>
            IF call[t].op \in {"MustSetFields", "MustCreate"}
            THEN /\ res[t].st = "panicked" <=> WalkErr(t) # ""
                 /\ res[t].st = "panicked" => res[t].err = WalkErr(t)
                 /\ res[t].st # "panicked" =>
                       /\ res[t].st = "returned" /\ res[t].err = ""
                       /\ res[t].ret = (IF call[t].op = "MustCreate" THEN 1 ELSE 0)
            ELSE /\ res[t].st = "returned"
                 /\ res[t].err = WalkErr(t)

\* a MustCreate has panicked with the error of the generator that failed
C7_Witness ==
    \E t \in Callers :
        /\ pc[t] = "done" /\ call[t].op = "MustCreate"
        /\ res[t] = Panicked("boom")
        /\ Len(log[t]) = 2 /\ log[t][2].st = "err" /\ log[t][2].err = "boom"

\* ------------------------------------------------------------------- C8

\* the latest invocation before the j-th of caller t's log that is one
\* level up: the generator the j-th invocation's walk was called from
Parent(t, j) ==
    LET lg == log[t]
        S == {i \in 1..(j - 1) : lg[i].lvl = lg[j].lvl - 1}
    IN CHOOSE i \in S : \A o \in S : o <= i

\* C8: the depth read through ctx.Factory is 1 in the generators of the
\* outermost walk, and in the generators of a walk started through
\* ctx.Factory it is one more than in the generator that started it.
C8_DepthPerNesting ==
    \A t \in Callers : \A j \in 1..Len(log[t]) :
        IF log[t][j].lvl = 1
        THEN log[t][j].depth = 1
        ELSE /\ \E i \in 1..(j - 1) : log[t][i].lvl = log[t][j].lvl - 1
             /\ log[t][j].depth = log[t][Parent(t, j)].depth + 1

\* the self-referential generator of K ran at five nesting levels and read
\* the depths 1, 2, 3, 4, 5 in that order
C8_Witness ==
    \E t \in Callers :
        LET ks == SelectSeq(log[t], LAMBDA e : e.field = "K")
        IN /\ Len(ks) = DepthLimit + 1
           /\ \A j \in 1..Len(ks) : ks[j].depth = j /\ ks[j].lvl = j
           /\ ks[Len(ks)].st = "ok"

\* ------------------------------------------------------------------- C9

\* C9: whatever the other callers are doing, the activations of a caller's
\* call chain have the depths 0, 1, 2, ... of their nesting, every generator
\* reads the depth of its own nesting level, and the Factories the callers
\* hold stay at depth 0, so that every top-level call starts at depth 1.
C9_DepthPerCallChain ==
    /\ \A i \in 1..Len(factories) : CallDepth(factories[i]) = 0
    /\ \A t \in Callers :
          /\ \A d \in 1..Len(stack[t]) : CallDepth(stack[t][d].f) = d - 1
          /\ \A j \in 1..Len(log[t]) : log[t][j].depth = log[t][j].lvl

\* one caller is three or more levels deep while another, on the same
\* Factory, has run only its outermost generator, which read depth 1
C9_Witness ==
    \E t \in Callers, o \in Callers :
        /\ t # o
        /\ call[t].f = call[o].f
        /\ Len(stack[t]) >= 3
        /\ log[t][Len(log[t])].depth >= 3
        /\ pc[o] = "run" /\ Len(stack[o]) = 2
        /\ Len(log[o]) = 1 /\ log[o][1].depth = 1

\* ------------------------------------------------------------------ C10

\* C10: the i-th invocation (from 0) of a round-robin generator over N
\* options drew the index i mod N from its Seq and returned that option.
C10_RoundRobin ==
    \A b \in 1..Len(built) : \A k \in 1..Len(built[b].gens) :
        LET g == built[b].gens[k].generator
        IN g.kind = "SeqSelect" =>
              /\ Len(g.opts) >= 1
              /\ \A j \in 1..Len(seqLog[g.id]) :
                    /\ seqLog[g.id][j].i = (j - 1) % Len(g.opts)
                    /\ seqLog[g.id][j].v = g.opts[((j - 1) % Len(g.opts)) + 1]

\* a generator over three options has been invoked four times and returned
\* them in order and then the first again
C10_Witness ==
    /\ Len(seqLog[1]) = 4
    /\ [j \in 1..4 |-> seqLog[1][j].v] = <<IntV(4), IntV(5), IntV(6), IntV(4)>>
    /\ [j \in 1..4 |-> seqLog[1][j].i] = <<0, 1, 2, 0>>
    /\ n[1] = 4

\* ------------------------------------------------------------------ C11

\* how many of the first m entries of the sequence is hold the index r
Handed(is, m, r) == Cardinality({j \in 1..m : is[j].i = r})

\* how many of m sequential invocations over cnt options return the index r
Sequential(m, cnt, r) == Cardinality({i \in 0..(m - 1) : i % cnt = r})

\* an invocation of the round-robin generator with counter id is under way
InFlight(id) ==
    \E t \in Callers : \E d \in 1..Len(stack[t]) :
        /\ stack[t][d].phase \in {"defer", "store"}
        /\ Gens(stack[t][d])[stack[t][d].k].generator.id = id

\* C11: whoever the callers are, the indices a round-robin generator has
\* handed out in m invocations are, as a multiset, those of m sequential
\* invocations, and once no invocation is under way the counter stands at m
\* (no increment was lost).
C11_SeqAtomic ==
    \A b \in 1..Len(built) : \A k \in 1..Len(built[b].gens) :
        LET g == built[b].gens[k].generator
            m == Len(seqLog[g.id])
        IN g.kind = "SeqSelect" =>
              /\ \A r \in 0..(Len(g.opts) - 1) :
                    Handed(seqLog[g.id], m, r) = Sequential(m, Len(g.opts), r)
              /\ ~InFlight(g.id) => n[g.id] = m

\* ------------------------------------------------------------------ C12

\* some binding of the list x names a field the target type does not have
\* or an unexported one
Malformed(x) ==
    \E i \in 1..Len(x) : \E j \in 1..Len(x[i].fields) :
        x[i].fields[j] \notin FieldNames \/ x[i].fields[j] = "u"

\* C12: NewFactory with a binding for an absent or unexported field panics
\* and returns no Factory, so that no generator is ever invoked and no
\* instance populated; a Factory that exists was built from bindings for
\* exported fields of the target type only.
C12_NewFactoryPanics ==
    /\ \A t \in Callers :
          call[t].op = "NewFactory" =>
              /\ Malformed(call[t].x)
              /\ res[t] = Panicked("config")
              /\ factories = <<>>
    /\ factories = <<>> =>
          /\ built = <<>> /\ arrays = <<>>
          /\ \A t \in Callers :
                /\ pc[t] # "run"
                /\ log[t] = <<>> /\ heap[t] = <<>> /\ stack[t] = <<>>
          /\ \A id \in SeqIds : seqLog[id] = <<>>
    /\ factories # <<>> =>
          /\ ~Malformed(built[1].x)
          /\ \A i \in 1..Len(built[1].gens) :
                /\ built[1].gens[i].fieldName \in FieldNames
                /\ built[1].gens[i].fieldName # "u"

\* NewFactory was given a binding for the unexported field after a valid
\* one and panicked
C12_Witness ==
    \E t \in Callers :
        /\ call[t].op = "NewFactory"
        /\ res[t] = Panicked("config")
        /\ Len(call[t].x) = 2
        /\ call[t].x[1].fields = <<"A">> /\ call[t].x[2].fields = <<"u">>
        /\ factories = <<>>

\* ------------------------------------------------------------------ C13

\* C13: a population call whose override list has a binding for an absent
\* or unexported field panics before any generator is invoked and with the
\* instance as the caller supplied it.
C13_MalformedOverride ==
    \A t \in Callers :
        call[t].op \in Ops /\ Malformed(call[t].x) =>
            /\ pc[t] = "done"
            /\ res[t] = Panicked("config")
            /\ log[t] = <<>>
            /\ stack[t] = <<>>
            /\ heap[t] = <<call[t].i0>>

\* SetFields on an instance with A = 7 was given a valid override for A
\* followed by one for the unexported field: it panicked and A still is 7
C13_Witness ==
    \E t \in Callers :
        /\ pc[t] = "done" /\ call[t].op = "SetFields"
        /\ res[t] = Panicked("config")
        /\ Len(call[t].x) = 2
        /\ call[t].x[1].fields = <<"A">> /\ call[t].x[2].fields = <<"u">>
        /\ call[t].i0["A"] = 7
        /\ heap[t][1]["A"] = 7
        /\ \E i \in 1..Len(built[call[t].f].gens) :
              built[call[t].f].gens[i].fieldName = "A"

\* ------------------------------------------------------------------ C14

\* the exported fields of proto that hold a non-zero value, in struct order
NonZeroFields(proto) ==
    SelectSeq(StructFields, LAMBDA name : name # "u" /\ proto[name] # 0)

\* one constant binding per non-zero exported field of proto, in struct order
Seeded(proto) ==
    [i \in 1..Len(NonZeroFields(proto)) |->
        [fieldName |-> NonZeroFields(proto)[i],
         fieldIndex |-> FieldByName(NonZeroFields(proto)[i]),
         generator |-> Value(FieldValue(NonZeroFields(proto)[i],
                                        proto[NonZeroFields(proto)[i]]))]]

\* C14: a Factory built from a prototype alone has one constant binding per
\* non-zero exported field of the prototype, and populating a zero instance
\* with it gives every exported field the prototype's value when that is
\* non-zero and the zero value otherwise.
C14_PrototypeSeeding ==
    /\ \A b \in 1..Len(built) :
          built[b].from = 0 /\ built[b].x = <<>> =>
              built[b].gens = Seeded(built[b].proto)
    /\ \A t \in Callers :
          /\ pc[t] = "done" /\ call[t].op \in Ops
          /\ call[t].x = <<>> /\ call[t].i0 = ZeroInstance
          /\ built[call[t].f].from = 0 /\ built[call[t].f].x = <<>>
          => /\ res[t].st = "returned" /\ res[t].err = ""
             /\ \A name \in FieldNames \ {"u"} :
                   heap[t][1][name] =
                       (IF built[call[t].f].proto[name] # 0
                        THEN built[call[t].f].proto[name] ELSE 0)

\* Create on the Factory of the prototype {B: 45} has returned an instance
\* with B = 45 and A zero
C14_Witness ==
    \E t \in Callers :
        /\ pc[t] = "done" /\ call[t].op = "Create" /\ call[t].x = <<>>
        /\ built[call[t].f].from = 0 /\ built[call[t].f].x = <<>>
        /\ built[call[t].f].proto["B"] = 45
        /\ res[t] = Returned("", 1)
        /\ built[call[t].f].proto["K"] = 9
        /\ heap[t][1]["B"] = 45 /\ heap[t][1]["K"] = 9 /\ heap[t][1]["A"] = 0

\* ------------------------------------------------------------------ C15

\* C15: no Factory has a binding for the unexported field, whatever the
\* prototype holds in it; NewFactory panics only for a malformed explicit
\* binding; and every instance keeps in its unexported field what it held
\* before the walk.
C15_UnexportedIgnored ==
    /\ \A i \in DOMAIN arrays : \A k \in 1..Len(arrays[i]) :
          arrays[i][k].fieldName # "u"
    /\ \A t \in Callers :
          /\ call[t].op = "NewFactory" => Malformed(call[t].x)
          /\ \A inst \in 1..Len(heap[t]) :
                heap[t][inst]["u"] = InitialOf(t, inst)["u"]
          /\ \A j \in 1..Len(log[t]) : log[t][j].field # "u"

\* a Factory built from a prototype with a non-zero unexported field has
\* populated an instance, which still holds its own value there
C15_Witness ==
    \E t \in Callers :
        /\ pc[t] = "done" /\ call[t].op = "SetFields"
        /\ res[t] = Returned("", 0)
        /\ built[1].proto["u"] = 5
        /\ call[t].i0["u"] = 9
        /\ heap[t][1]["u"] = 9
        /\ heap[t][1]["B"] = 45
        /\ log[t] # <<>>

\* ------------------------------------------------------------------ C16

\* the last invocation of the sequence es for the field name
LastFor(es, name) ==
    LET S == {j \in 1..Len(es) : es[j].field = name}
    IN CHOOSE j \in S : \A o \in S : o <= j

\* C16: the bindings of NewFactory(proto, explicit...) are the prototype's,
\* in struct field order, followed by the explicit ones in the order given,
\* none dropped; in a walk over them every generator runs and a field bound
\* more than once ends with the value of its last binding.
C16_ProtoThenExplicit ==
    /\ \A b \in 1..Len(built) :
          built[b].from = 0 =>
              /\ SubSeq(built[b].gens, 1, Len(Seeded(built[b].proto)))
                    = Seeded(built[b].proto)
              /\ SubSeq(built[b].gens, Len(Seeded(built[b].proto)) + 1,
                        Len(built[b].gens))
                    = Flatten(built[b].x)
    /\ \A t \in Callers :
          /\ pc[t] = "done" /\ call[t].op \in Ops /\ call[t].x = <<>>
          /\ built[call[t].f].from = 0
          /\ res[t].st = "returned" /\ res[t].err = ""
          => LET es == WalkEntries(t, 1)
             IN /\ Len(es) = Len(built[call[t].f].gens)
                /\ \A j \in 1..Len(es) :
                      /\ es[j].field = built[call[t].f].gens[j].fieldName
                      /\ heap[t][1][es[j].field]
                            = Deref(es[j].field, es[LastFor(es, es[j].field)].out).x

\* the prototype holds A = 1 and an explicit binding sets A to 2: both
\* generators ran, in that order, and the instance holds 2
C16_Witness ==
    \E t \in Callers :
        /\ pc[t] = "done" /\ call[t].op = "Create" /\ call[t].x = <<>>
        /\ res[t] = Returned("", 1)
        /\ built[call[t].f].proto["A"] = 1
        /\ Len(log[t]) = 3
        /\ log[t][1].field = "A" /\ log[t][1].out = IntV(1)
        /\ log[t][2].field = "A" /\ log[t][2].out = IntV(2)
        /\ heap[t][1]["A"] = 2

\* ------------------------------------------------------------------ C17

\* the instance of the walk es of caller t right after its j-th invocation
After(t, es, j) == IF j < Len(es) THEN es[j + 1].seen ELSE heap[t][es[j].inst]

\* C17: a generator that returned a nil value and a nil error does not stop
\* the call: the walk goes on and the field is left at its zero value.
C17_NilClearsField ==
    \A t \in Callers :
        /\ \A inst \in 1..Len(heap[t]) :
              LET es == WalkEntries(t, inst)
              IN \A j \in 1..Len(es) :
                    es[j].out = NilV /\ es[j].st \notin {"pending", "err"} =>
                        /\ es[j].st = "ok"
                        /\ After(t, es, j)[es[j].field] = 0
        /\ pc[t] = "done" /\ call[t].op \in Ops /\ ~Malformed(call[t].x) =>
              res[t] # Panicked("runtime")

\* ------------------------------------------------------------------ C18

\* C18: of a value a generator returned without error, a pointer kind field
\* stores the pointer itself, a field of another kind stores what a pointer
\* points to, and a value that is no pointer is stored as it is.
C18_PointerPolicy ==
    \A t \in Callers : \A inst \in 1..Len(heap[t]) :
        LET es == WalkEntries(t, inst)
        IN \A j \in 1..Len(es) :
              LET v == es[j].out
                  name == es[j].field
              IN /\ es[j].st \notin {"pending", "err"} /\ v.t = "pint"
                    /\ FieldKind(name) = "int" =>
                        /\ es[j].st = "ok"
                        /\ After(t, es, j)[name] = v.x
                 /\ es[j].st \notin {"pending", "err"} /\ v.t = "ptr"
                    /\ FieldKind(name) = "ptr" =>
                        /\ es[j].st = "ok"
                        /\ After(t, es, j)[name] = v.x
                 /\ es[j].st \notin {"pending", "err"} /\ v.t = "int"
                    /\ FieldKind(name) = "int" =>
                        /\ es[j].st = "ok"
                        /\ After(t, es, j)[name] = v.x

\* one walk stored the int a pointer points to in A, an int in B and a
\* pointer in K
C18_Witness ==
    \E t \in Callers :
        /\ pc[t] = "done" /\ res[t].st = "returned" /\ res[t].err = ""
        /\ Len(log[t]) = 3
        /\ log[t][1].out = PIntV(6) /\ log[t][1].field = "A"
        /\ log[t][2].out = IntV(2) /\ log[t][2].field = "B"
        /\ log[t][3].out = PtrV(9) /\ log[t][3].field = "K"
        /\ call[t].i0["A"] = 7
        /\ heap[t][1]["A"] = 6 /\ heap[t][1]["B"] = 2 /\ heap[t][1]["K"] = 9

\* ------------------------------------------------------------------ C19

\* what C19 says makes adapting the function of generator g fail
BadCallable(g) ==
    \/ ~g.fn.variadic /\ g.fn.numIn # Len(g.opts)
    \/ g.fn.numOut = 0
    \/ g.fn.numOut > 2
    \/ g.fn.numOut = 2 /\ ~g.fn.errOut

\* C19: Use of a function panics, before there is a Factory and before any
\* generator runs, exactly when the function is not variadic and the number
\* of its parameters is not that of the extra arguments, or it has no result
\* or more than two, or two and the second is not an error.
C19_FuncConstruction ==
    /\ \A t \in Callers :
          call[t].op = "Use" =>
              /\ \E i \in 1..Len(call[t].x) :
                    call[t].x[i].g.kind = "Func" /\ BadCallable(call[t].x[i].g)
              /\ res[t] = Panicked("config")
              /\ factories = <<>>
              /\ log[t] = <<>> /\ heap[t] = <<>>
    /\ factories # <<>> =>
          \A i \in 1..Len(built[1].x) :
              built[1].x[i].g.kind = "Func" => ~BadCallable(built[1].x[i].g)

\* Use of a function of one parameter with two extra arguments panicked
C19_Witness ==
    \E t \in Callers :
        /\ call[t].op = "Use" /\ res[t] = Panicked("config")
        /\ call[t].x[1].g.fn = Callable(1, FALSE, 1, FALSE, "")
        /\ call[t].x[1].g.opts = <<1, 2>>
        /\ factories = <<>>

\* ------------------------------------------------------------------ C20

\* C20: every invocation of the generator of an adapted function returns the
\* function's error when its second result is a non-nil error, and the call
\* returns that error; otherwise it returns, with a nil error, what the
\* function returns for the arguments given to Use.
C20_FuncInvocation ==
    \A t \in Callers : \A j \in 1..Len(log[t]) :
        LET e == log[t][j]
            g == built[call[t].f].gens[e.k].generator
        IN call[t].x = <<>> /\ e.lvl = 1 /\ g.kind = "Func" /\ e.st # "pending" =>
              IF g.fn.numOut = 2 /\ g.fn.err # ""
              THEN /\ e.st = "err" /\ e.err = g.fn.err
                   /\ pc[t] = "done" =>
                         res[t] = Returned(g.fn.err, 0)
              ELSE /\ e.st = "ok"
                   /\ e.out = IntV(SumArgs(g.opts) + 1)
                   /\ heap[t][1][e.field] = SumArgs(g.opts) + 1

\* ------------------------------------------------------------------ C21

\* the values of a sequence
Range(seq) == {seq[i] : i \in 1..Len(seq)}

\* C21: the generator made of a value and extra values selects among the
\* value and the extras, every one of which its random index can pick, and
\* every invocation of it returns, with a nil error, one of them.
C21_OptionSet ==
    /\ \A b \in 1..Len(built) : \A k \in 1..Len(built[b].gens) :
          LET g == built[b].gens[k].generator
          IN g.kind = "RndSelect" =>
                /\ {g.opts[r + 1] : r \in Rnd(Len(g.opts))}
                      = {RndValue} \cup Range(RndExtras)
                /\ Len(g.opts) = 1 + Len(RndExtras)
    /\ \A t \in Callers : \A j \in 1..Len(log[t]) :
          LET e == log[t][j]
              g == built[call[t].f].gens[e.k].generator
          IN call[t].x = <<>> /\ e.lvl = 1 /\ g.kind = "RndSelect"
             /\ e.st # "pending" =>
                /\ e.st = "ok" /\ e.err = ""
                /\ e.out \in {RndValue} \cup Range(RndExtras)
                /\ pc[t] = "done" => res[t].st = "returned" /\ res[t].err = ""

\* three invocations of one option-set generator in one walk returned the
\* second extra, the first extra and the value itself
C21_Witness ==
    \E t \in Callers :
        /\ pc[t] = "done" /\ res[t].st = "returned" /\ res[t].err = ""
        /\ Len(log[t]) = 3
        /\ log[t][1].out = RndExtras[2]
        /\ log[t][2].out = RndExtras[1]
        /\ log[t][3].out = RndValue
        /\ built[call[t].f].gens[1].generator.kind = "RndSelect"
        /\ heap[t][1]["A"] = RndValue.x /\ heap[t][1]["B"] = RndExtras[1].x

\* ------------------------------------------------------------------ C22

\* no binding of gens is a generator of one of the kinds
NoneOf(gens, kinds) == \A k \in 1..Len(gens) : gens[k].generator.kind \notin kinds

\* callers t and o have each completed the same call without overrides on a
\* zero instance through the same Factory, none of whose bindings is of the
\* kinds
SamePlainCalls(t, o, kinds) ==
    /\ t # o
    /\ pc[t] = "done" /\ pc[o] = "done"
    /\ call[t].op \in Ops /\ call[o].op = call[t].op
    /\ call[t].f = call[o].f
    /\ call[t].x = <<>> /\ call[o].x = <<>>
    /\ call[t].i0 = ZeroInstance /\ call[o].i0 = ZeroInstance
    /\ NoneOf(built[call[t].f].gens, kinds)

\* C22 as stated: two SetFields calls on zero instances through a Factory
\* without a random selection leave the two instances equal field by field.
C22_Deterministic ==
    \A t \in Callers, o \in Callers :
        SamePlainCalls(t, o, {"RndSelect"}) => heap[t][1] = heap[o][1]

\* C22 amended: two SetFields calls on zero instances through a Factory
\* without a random and without a round-robin selection end alike and leave
\* the two instances, and the instances nested in them, equal field by field.
C22_DeterministicStateless ==
    \A t \in Callers, o \in Callers :
        SamePlainCalls(t, o, {"RndSelect", "SeqSelect"}) =>
            /\ heap[t] = heap[o]
            /\ res[t] = res[o]

\* two calls through the Factory of constant bindings are complete, both
\* instances with A = 1 and B = 1
C22_Witness ==
    \E t \in Callers, o \in Callers :
        /\ SamePlainCalls(t, o, {"RndSelect", "SeqSelect"})
        /\ call[t].f = 1 /\ call[t].op = "SetFields"
        /\ Len(log[t]) = 2 /\ Len(log[o]) = 2
        /\ heap[t][1]["A"] = 1 /\ heap[t][1]["B"] = 1
        /\ heap[o][1]["A"] = 1 /\ heap[o][1]["B"] = 1

\* ------------------------------------------------------------------ C23

\* C23: whatever calls the callers have made or are making at once, with or
\* without overrides, every Factory they hold has the target type and the
\* binding sequence it was built with, and every instance of a caller holds
\* exactly the assignments of that caller's own generator invocations.
C23_SharedFactoryUnchanged ==
    /\ \A i \in 1..Len(factories) :
          /\ factories[i].typ = "T"
          /\ arrays[factories[i].fieldGens] = built[i].gens
    /\ \A t \in Callers : \A inst \in 1..Len(heap[t]) :
          heap[t][inst] = Apply(InitialOf(t, inst), WalkEntries(t, inst))

\* two callers are inside calls on the same Factory at once, one with an
\* override of A and one without, after a Derive from it: each instance
\* holds its own call's value of A
C23_Witness ==
    \E t \in Callers, o \in Callers :
        /\ t # o
        /\ pc[t] = "run" /\ pc[o] = "run"
        /\ call[t].f = 1 /\ call[o].f = 1
        /\ call[t].x # <<>> /\ call[o].x = <<>>
        /\ Len(factories) = 2 /\ built[2].from = 1 /\ built[2].x # <<>>
        /\ Len(log[t]) = 1 /\ Len(log[o]) = 1
        /\ heap[t][1]["A"] = 3 /\ heap[o][1]["A"] = 1
        /\ arrays[factories[1].fieldGens] = built[1].gens

\* ------------------------------------------------------------------ C24

\* C24: every completed invocation of the generator of a nested Factory, in
\* the outermost walk of a call, ran a walk of the nested Factory's own
\* bindings, in order, over a zero instance no earlier invocation had seen;
\* when no generator of that walk failed the invocation returned that
\* instance, populated by all of them, and otherwise the error of the one
\* that failed, which ended the outer walk and the call.
C24_NestedFactory ==
    \A t \in Callers : \A j \in 1..Len(log[t]) :
        LET e == log[t][j]
        IN /\ call[t].x = <<>> /\ e.lvl = 1 /\ e.st # "pending"
           /\ built[call[t].f].gens[e.k].generator.kind = "Factory"
           => /\ j < Len(log[t])
              /\ log[t][j + 1].lvl = 2
              /\ LET c == log[t][j + 1].inst
                     es == WalkEntries(t, c)
                     inner == built[1].gens
                 IN /\ built[call[t].f].gens[e.k].generator.fact = factories[1]
                    /\ \A i \in 1..j : log[t][i].inst # c
                    /\ es[1].seen = ZeroInstance
                    /\ Len(es) <= Len(inner)
                    /\ \A i \in 1..Len(es) :
                          /\ es[i].k = i /\ es[i].lvl = 2
                          /\ es[i].field = inner[i].fieldName
                          /\ i < Len(es) => es[i].st = "ok"
                    /\ IF es[Len(es)].st = "ok"
                       THEN /\ Len(es) = Len(inner)
                            /\ e.st = "ok" /\ e.out = PtrV(c)
                            /\ heap[t][c] = Apply(ZeroInstance, es)
                            /\ After(t, WalkEntries(t, 1), e.k)[e.field] = c
                       ELSE /\ es[Len(es)].st = "err"
                            /\ e.st = "err" /\ e.err = es[Len(es)].err
                            /\ \A i \in (j + 1)..Len(log[t]) : log[t][i].lvl # 1
                            /\ heap[t][1][e.field] = e.seen[e.field]
                            /\ pc[t] = "done" =>
                                  res[t] = Outcome(call[t].op, e.err, 1)

\* a Create through the outer Factory has returned an instance whose K was
\* set twice from the nested Factory, to two different populated instances
C24_Witness ==
    \E t \in Callers :
        /\ pc[t] = "done" /\ call[t].op = "Create" /\ call[t].f = 2
        /\ res[t] = Returned("", 1)
        /\ Len(log[t]) = 7
        /\ log[t][1].out = PtrV(2) /\ log[t][4].out = PtrV(3)
        /\ heap[t][2]["A"] = 1 /\ heap[t][2]["B"] = 1
        /\ heap[t][3]["A"] = 1 /\ heap[t][3]["B"] = 1
        /\ heap[t][1]["K"] = 3 /\ heap[t][1]["A"] = 2

\* a SetFields through the outer Factory has returned the error of the
\* nested Factory's second generator, with K and B as they were
C24_WitnessError ==
    \E t \in Callers :
        /\ pc[t] = "done" /\ call[t].op = "SetFields" /\ call[t].f = 2
        /\ res[t] = Returned("boom", 0)
        /\ Len(log[t]) = 4
        /\ log[t][2].st = "err" /\ log[t][4].st = "err"
        /\ heap[t][1]["A"] = 2 /\ heap[t][1]["K"] = 0 /\ heap[t][1]["B"] = 0

\* ------------------------------------------------------------------ C25

\* the binding names an exported field of the target type and its index is
\* that of the field with that name
Resolves(fg) ==
    /\ fg.fieldName \in FieldNames \ {"u"}
    /\ fg.fieldIndex \in 1..Len(StructFields)
    /\ StructFields[fg.fieldIndex] = fg.fieldName

\* C25: every binding of every Factory there is (built, derived, or derived
\* for the overrides of a call in progress) names an exported field of the
\* target type and holds the index of that field, every walk goes over such
\* a Factory, and every generator invocation was for such a field.
C25_BindingsResolve ==
    /\ \A id \in DOMAIN arrays : \A k \in 1..Len(arrays[id]) : Resolves(arrays[id][k])
    /\ \A i \in 1..Len(factories) : factories[i].fieldGens \in DOMAIN arrays
    /\ \A t \in Callers :
          /\ \A d \in 1..Len(stack[t]) : stack[t][d].f.fieldGens \in DOMAIN arrays
          /\ \A j \in 1..Len(log[t]) : log[t][j].field \in FieldNames \ {"u"}

\* a call with an override is inside its walk over the Factory derived for
\* it, next to the built Factory and one a caller derived, and the binding
\* the override appended has assigned its field
C25_Witness ==
    \E t \in Callers :
        /\ pc[t] = "run" /\ call[t].x # <<>> /\ call[t].tmp # 0
        /\ Len(factories) = 2 /\ built[2].from = 1 /\ built[2].x # <<>>
        /\ Cardinality(DOMAIN arrays) = 3
        /\ Len(Gens(stack[t][1])) > Len(built[call[t].f].gens)
        /\ stack[t][1].k > Len(Gens(stack[t][1]))
        /\ log[t][Len(log[t])].field = "B" /\ log[t][Len(log[t])].st = "ok"
        /\ heap[t][1]["B"] = log[t][Len(log[t])].out.x

\* ------------------------------------------------------------------ C26

\* the generator of the last binding of the list bs for the field name
LastGen(bs, name) ==
    LET S == {j \in 1..Len(bs) : bs[j].fieldName = name}
    IN bs[CHOOSE j \in S : \A o \in S : o <= j].generator

\* the instance holds, in every field the override list x names with a
\* constant, the constant of the last override for it
Overridden(inst, x) ==
    \A name \in Names(Flatten(x)) :
        LastGen(Flatten(x), name).kind = "Value" =>
            inst[name] = Deref(name, LastGen(Flatten(x), name).val).x

\* C26: after a population call that succeeded, every field an override of
\* the call names holds the value of that override's generator, and after a
\* call without overrides through a Factory returned by Derive, so does
\* every field the overrides of that Derive name.
C26_OverrideTakesEffect ==
    \A t \in Callers :
        pc[t] = "done" /\ call[t].op \in Ops /\ res[t].st = "returned"
        /\ res[t].err = "" =>
            IF call[t].x # <<>>
            THEN Overridden(heap[t][1], call[t].x)
            ELSE built[call[t].f].from # 0 =>
                     Overridden(heap[t][1], built[call[t].f].x)

\* ------------------------------------------------------------------ C27

\* C27: during and after a population call, whether it succeeds, fails or
\* panics, every field of the caller's instance that no binding of the
\* walked Factory names holds the value the caller supplied, and so does
\* every field of a nested instance with its zero value.
C27_UnboundFieldsKept ==
    \A t \in Callers :
        call[t].op \in Ops =>
            IF Malformed(call[t].x)
            THEN heap[t] = <<call[t].i0>>
            ELSE \A inst \in 1..Len(heap[t]) :
                    \A name \in FieldNames \ Names(WalkedGens(t)) :
                        heap[t][inst][name] = InitialOf(t, inst)[name]

\* SetFields through a Factory that binds A and B only has returned: A and
\* B changed, K and the unexported field are as the caller had set them
C27_Witness ==
    \E t \in Callers :
        /\ pc[t] = "done" /\ call[t].op = "SetFields"
        /\ res[t] = Returned("", 0)
        /\ Names(WalkedGens(t)) = {"A", "B"}
        /\ call[t].i0["A"] = 7 /\ call[t].i0["K"] = 9 /\ call[t].i0["u"] = 9
        /\ heap[t][1]["A"] # 7 /\ heap[t][1]["B"] # 8
        /\ heap[t][1]["K"] = 9 /\ heap[t][1]["u"] = 9

\* ------------------------------------------------------------------ C28

\* the Factory caller t's call walks has a self-referential generator bounded
\* by DepthLimit, and its other generators return at once
Recursive(t) ==
    /\ call[t].op \in Ops
    /\ ~Malformed(call[t].x)
    /\ \E k \in 1..Len(WalkedGens(t)) : WalkedGens(t)[k].generator.kind = "Self"
    /\ \A k \in 1..Len(WalkedGens(t)) :
          /\ WalkedGens(t)[k].generator.kind \in {"Self", "Value", "Fail", "FromField"}
          /\ WalkedGens(t)[k].generator.kind = "Self" =>
                WalkedGens(t)[k].generator.limit = DepthLimit

\* no generator of a call on a recursive Factory has run deeper than
\* DepthLimit + 1, and no more activations than that are open
DepthBounded ==
    \A t \in Callers :
        Recursive(t) =>
            /\ Len(stack[t]) <= DepthLimit + 1
            /\ \A j \in 1..Len(log[t]) : log[t][j].depth <= DepthLimit + 1

DerivedCall(c) == c.op \in Ops /\ (c.x # <<>> \/ built[c.f].from # 0)

\* the step is one of a call of caller t through a derived Factory: its
\* start or a step inside it
DerivedStep(t) ==
    \/ pc[t] = "run" /\ DerivedCall(call[t])
    \/ pc[t] = "idle" /\ pc'[t] # "idle" /\ DerivedCall(call'[t])

\* the step leaves the bindings of every Factory a caller holds as they are
BindingsKept ==
    \A i \in 1..Len(factories) :
        /\ factories'[i] = factories[i]
        /\ arrays'[factories[i].fieldGens] = arrays[factories[i].fieldGens]

\* C29 as stated: no step of a call through a derived Factory changes what
\* later calls through the parent yield: neither the bindings of the
\* Factories the callers hold nor the counter of a round-robin generator.
C29_DerivedIndependent ==
    [][ \A t \in Callers : DerivedStep(t) => BindingsKept /\ n' = n ]_vars

\* C29 amended: a step of a call through a derived Factory leaves the
\* bindings of the Factories the callers hold as they are, and changes of a
\* round-robin counter nothing but to advance it by one when the call
\* invokes that generator, which the derived Factory has from its parent.
C29_DerivedSharesCounters ==
    [][ \A t \in Callers :
          DerivedStep(t) =>
              /\ BindingsKept
              /\ \A id \in SeqIds :
                    n'[id] # n[id] =>
                        /\ n'[id] = n[id] + 1
                        /\ stack[t] # <<>>
                        /\ Top(stack[t]).phase = "store"
                        /\ Gens(Top(stack[t]))[Top(stack[t]).k].generator.kind = "SeqSelect"
                        /\ Gens(Top(stack[t]))[Top(stack[t]).k].generator.id = id
                        /\ \E k \in 1..Len(built[call[t].f].gens) :
                              built[call[t].f].gens[k].generator
                                  = Gens(Top(stack[t]))[Top(stack[t]).k].generator ]_vars

\* a call through a Factory derived with an override has completed and the
\* round-robin generator it has from its parent, whose bindings are as they
\* were built, has been invoked
C29_Witness ==
    \E t \in Callers :
        /\ pc[t] = "done" /\ DerivedCall(call[t])
        /\ built[call[t].f].from = 1 /\ built[call[t].f].x # <<>>
        /\ res[t].st = "returned" /\ res[t].err = ""
        /\ Len(seqLog[1]) = 1 /\ n[1] = 1
        /\ \E k \in 1..Len(built[1].gens) :
              built[1].gens[k].generator.kind = "SeqSelect"
        /\ arrays[factories[1].fieldGens] = built[1].gens
        /\ arrays[factories[call[t].f].fieldGens] # built[1].gens

\* ------------------------------------------------------------------ C30

\* C30: once a Factory with an adapted function is built, no invocation of
\* that generator panics: it returns a value, or the error the function
\* returned, and a call whose generators are adapted functions and
\* round-robin selections never ends in a panic.
C30_NoDeferredConfigError ==
    \A t \in Callers :
        factories # <<>> /\ call[t].op \in Ops /\ call[t].x = <<>> =>
            /\ \A j \in 1..Len(log[t]) :
                  LET e == log[t][j]
                  IN e.lvl = 1
                     /\ built[call[t].f].gens[e.k].generator.kind = "Func" =>
                        /\ e.st \in {"pending", "ok", "err"}
                        /\ e.st = "err" =>
                              /\ e.err # ""
                              /\ e.err = built[call[t].f].gens[e.k].generator.fn.err
            /\ NoneOf(built[call[t].f].gens, {"Value", "Factory", "RndSelect"}) =>
                  res[t].st # "panicked"

====
